---- MODULE Spec2Model ----
(***************************************************************************)
(* The project-context engine of the MCP context server: ContextManager    *)
(* (scanProject, buildProjectStructure, getFileContent, getFileContext,    *)
(* generateProjectContext, findRelevantFiles, matchesPattern) over a small *)
(* file system that other processes may change between two system calls.   *)
(* Paths, names and patterns are strings, handled character by character   *)
(* as the path module and String.prototype.includes handle them.           *)
(***************************************************************************)
EXTENDS Integers, Sequences, FiniteSets, TLC

VARIABLES
    projectStructure,  \* ContextManager.projectStructure: Null or the scanned tree
    fileCache,         \* ContextManager.fileCache: absolute path -> content
    disk,              \* the files other processes may change: path -> [exists, content, mtime]
    clock,             \* number of file-system changes so far (the source of mtimes)
    pending,           \* the generateProjectContext call suspended at its Promise.all: <<>> or <<call>>
    last,              \* the last completed generateProjectContext call
    firstRead          \* history: absolute path -> mtime of the file when it entered the cache

vars == <<projectStructure, fileCache, disk, clock, pending, last, firstRead>>

\* the value of projectStructure before any scan succeeded (null)
NoStructure == [type |-> "null"]

\* a JavaScript value that is null or a string: <<>> or <<string>>
NullValue == <<>>
StringValue(s) == <<s>>

\* !value for such a value: null and the empty string are falsy
Falsy(value) == value = NullValue \/ value[1] = ""

----------------------------------------------------------------------------
(* Bounds of the model. *)

MaxFsOps == 1

----------------------------------------------------------------------------
(* Strings. *)

Char(s, i) == SubSeq(s, i, i)

\* String.prototype.startsWith
StartsWith(s, prefix) ==
    /\ Len(prefix) <= Len(s)
    /\ SubSeq(s, 1, Len(prefix)) = prefix

\* String.prototype.includes: pattern occurs somewhere in s (the empty pattern always does)
Includes(s, pattern) ==
    \E i \in 1..(Len(s) - Len(pattern) + 1) : SubSeq(s, i, i + Len(pattern) - 1) = pattern

\* the lower-case form of every upper-case letter
LowerOf ==
    ("A" :> "a") @@ ("B" :> "b") @@ ("C" :> "c") @@ ("D" :> "d") @@ ("E" :> "e") @@
    ("F" :> "f") @@ ("G" :> "g") @@ ("H" :> "h") @@ ("I" :> "i") @@ ("J" :> "j") @@
    ("K" :> "k") @@ ("L" :> "l") @@ ("M" :> "m") @@ ("N" :> "n") @@ ("O" :> "o") @@
    ("P" :> "p") @@ ("Q" :> "q") @@ ("R" :> "r") @@ ("S" :> "s") @@ ("T" :> "t") @@
    ("U" :> "u") @@ ("V" :> "v") @@ ("W" :> "w") @@ ("X" :> "x") @@ ("Y" :> "y") @@
    ("Z" :> "z")

LowerChar(c) == IF c \in DOMAIN LowerOf THEN LowerOf[c] ELSE c

\* String.prototype.toLowerCase
RECURSIVE ToLowerCase(_)
ToLowerCase(s) ==
    IF Len(s) = 0 THEN ""
    ELSE LowerChar(Char(s, 1)) \o ToLowerCase(SubSeq(s, 2, Len(s)))

\* position of the last occurrence of the one-character string c in s, 0 when there is none
LastIndexOf(s, c) ==
    LET hits == {i \in 1..Len(s) : Char(s, i) = c}
    IN  IF hits = {} THEN 0 ELSE CHOOSE i \in hits : \A j \in hits : j <= i

\* path.basename
Basename(p) == SubSeq(p, LastIndexOf(p, "/") + 1, Len(p))

\* path.extname: from the last "." of the base name, "" when there is none or it leads the name
Extname(p) ==
    LET base == Basename(p)
        dot  == LastIndexOf(base, ".")
    IN  IF dot <= 1 THEN "" ELSE SubSeq(base, dot, Len(base))

\* path.join of a relative directory and an entry name
Join(dir, name) == IF dir = "" THEN name ELSE dir \o "/" \o name

----------------------------------------------------------------------------
(* The file system. The directory layout is fixed; the files of Watched     *)
(* are created, rewritten and deleted by other processes.                   *)

Cwd == "/w"

\* readdir order of every directory that exists
Listing ==
    [d \in {"/w", "/w/src", "/w/src/deep", "/w/node_modules", "/w/build",
            "/p", "/p/src", "/p/dist", "/p/.git", "/q", "/q/priv"} |->
        CASE d = "/w"              -> <<".env", "index.js", "node_modules", "src", "build", "README">>
          [] d = "/w/src"          -> <<"x.test.ts", "a.ts", "b.txt", "deep">>
          [] d = "/w/src/deep"     -> <<"d.JS">>
          [] d = "/w/node_modules" -> <<"c.js">>
          [] d = "/w/build"        -> <<"out.js">>
          [] d = "/p"              -> <<"src", "only.css", "dist", ".git">>
          [] d = "/p/src"          -> <<"a.ts">>
          [] d = "/p/dist"         -> <<"o.js">>
          [] d = "/p/.git"         -> <<"config.json">>
          [] d = "/q"              -> <<"q.js", "priv">>
          [] d = "/q/priv"         -> <<"k.json">>]

Directories == DOMAIN Listing

\* directories whose listing is refused (EACCES)
Unlistable == {"/q/priv"}

\* the files other processes change
Watched == {"/w/index.js", "/w/src/a.ts"}

\* the files nothing changes, with their content
Fixed ==
    [f \in {"/w/.env", "/w/README", "/w/src/x.test.ts", "/w/src/b.txt", "/w/src/deep/d.JS",
            "/w/node_modules/c.js", "/w/build/out.js",
            "/p/src/a.ts", "/p/only.css", "/p/dist/o.js", "/p/.git/config.json",
            "/q/q.js", "/q/priv/k.json"} |->
        CASE f = "/w/src/x.test.ts" -> "x1"
          [] f = "/w/src/deep/d.JS" -> "d1"
          [] f = "/p/src/a.ts"      -> "pa"
          [] f = "/p/only.css"      -> "po"
          [] OTHER                  -> "fx"]

InitialContent(f) ==
    CASE f = "/w/src/a.ts" -> "a1"
      [] f = "/w/index.js" -> ""

\* what other processes write
Written == {"", "w2"}

FileExists(f, d) ==
    \/ f \in DOMAIN Fixed
    \/ f \in Watched /\ d[f].exists

FileContent(f, d) == IF f \in Watched THEN d[f].content ELSE Fixed[f]

FileMtime(f, d) == IF f \in Watched THEN d[f].mtime ELSE 0

----------------------------------------------------------------------------
(* Tree Scanner: scanProject and buildProjectStructure. *)

Throw(message) == [type |-> "throw", message |-> message]

\* a refused listing does not throw
ReaddirFailsWhenMissing(dir) == dir \notin Directories

\* fs.readdirSync(dir, {withFileTypes: true}): the entries present, in enumeration order
ReaddirFails(dir) == dir \notin Directories \/ dir \in Unlistable

Readdir(dir, d) ==
    SelectSeq(Listing[dir],
              LAMBDA name : LET p == dir \o "/" \o name
                            IN  p \in Directories \/ FileExists(p, d))

\* the skip test that knows hidden entries only
SkippedEntryHiddenOnly(name) == StartsWith(name, ".")

\* the directories buildProjectStructure skips
SkippedEntry(name) ==
    \/ name = "node_modules"
    \/ name = ".git"
    \/ StartsWith(name, ".")
    \/ name = "dist"
    \/ name = "build"

\* the allow-list with text files in it
CodeExtensionsAndText == {".js", ".jsx", ".ts", ".tsx", ".json", ".html", ".css", ".txt"}

\* the extensions buildProjectStructure keeps
CodeExtensions == {".js", ".jsx", ".ts", ".tsx", ".json", ".html", ".css"}

FileNode(name, relativePath) ==
    [type |-> "file", name |-> name, path |-> relativePath,
     extension |-> ToLowerCase(Extname(name))]

DirectoryNode(dir, relativePath, children) ==
    [type |-> "directory", name |-> Basename(dir), path |-> relativePath, children |-> children]

RECURSIVE buildProjectStructure(_, _, _)
RECURSIVE ScanEntries(_, _, _, _, _)

\* the for loop of buildProjectStructure over the entries not yet visited
ScanEntries(dir, relativePath, entries, children, d) ==
    IF entries = <<>> THEN DirectoryNode(dir, relativePath, children)
    ELSE
        LET name              == Head(entries)
            entryPath         == dir \o "/" \o name
            entryRelativePath == Join(relativePath, name)
            rest              == Tail(entries)
        IN  IF SkippedEntry(name)
            THEN ScanEntries(dir, relativePath, rest, children, d)
            ELSE IF entryPath \in Directories
            THEN LET subdirStructure == buildProjectStructure(entryPath, entryRelativePath, d)
                 IN  IF subdirStructure.type = "throw"
                     THEN subdirStructure
                     ELSE ScanEntries(dir, relativePath, rest,
                                      Append(children, subdirStructure), d)
            ELSE IF ToLowerCase(Extname(name)) \in CodeExtensions
            THEN ScanEntries(dir, relativePath, rest,
                             Append(children, FileNode(name, entryRelativePath)), d)
            ELSE ScanEntries(dir, relativePath, rest, children, d)

buildProjectStructure(dir, relativePath, d) ==
    IF ReaddirFails(dir)
    THEN Throw("readdir " \o dir)
    ELSE ScanEntries(dir, relativePath, Readdir(dir, d), <<>>, d)

\* the project roots callers name
Roots == {"/w", "/p", "/q", "/missing"}

\* scanProject(projectRoot): the tree is stored only when the walk returned.
\* The event loop runs one request handler at a time.
scanProject(projectRoot) ==
    /\ pending = <<>>
    /\ \E built \in {buildProjectStructure(projectRoot, "", disk)} :
        /\ projectStructure' = IF built.type = "throw" THEN projectStructure ELSE built
        /\ UNCHANGED <<fileCache, disk, clock, pending, last, firstRead>>

----------------------------------------------------------------------------
(* Context Assembler: selection. *)

\* a pattern is a string or a RegExp; the regular expressions of the model are
\* literal text with an optional closing $ anchor
StringPattern(text) == [kind |-> "string", text |-> text]
RegExpPattern(source) == [kind |-> "regexp", text |-> source]

EndsWith(s, suffix) ==
    /\ Len(suffix) <= Len(s)
    /\ SubSeq(s, Len(s) - Len(suffix) + 1, Len(s)) = suffix

\* RegExp.prototype.test for those regular expressions
RegExpTest(source, s) ==
    IF EndsWith(source, "$")
    THEN EndsWith(s, SubSeq(source, 1, Len(source) - 1))
    ELSE Includes(s, source)

matchesPattern(filePath, pattern) ==
    IF pattern.kind = "regexp" THEN RegExpTest(pattern.text, filePath)
    ELSE IF pattern.kind = "string" THEN Includes(filePath, pattern.text)
    ELSE FALSE

\* Array.prototype.some over the patterns
SomePattern(patterns, filePath) ==
    \E i \in 1..Len(patterns) : matchesPattern(filePath, patterns[i])

\* path.resolve of a relative path: the process working directory decides
Resolve(relativePath) == Cwd \o "/" \o relativePath

\* Array.prototype.slice(0, n)
Slice(s, n) ==
    IF n >= 0 THEN SubSeq(s, 1, IF n < Len(s) THEN n ELSE Len(s))
    ELSE SubSeq(s, 1, Len(s) + n)

\* the test with the exclude patterns consulted only when no include pattern is given
IsCandidateIncludeFirst(node, options) ==
    IF Len(options.includePatterns) > 0
    THEN SomePattern(options.includePatterns, node.path)
    ELSE ~SomePattern(options.excludePatterns, node.path)

\* the test of findRelevantFiles on a file node
IsCandidate(node, options) ==
    LET matchesInclude == \/ Len(options.includePatterns) = 0
                          \/ SomePattern(options.includePatterns, node.path)
        matchesExclude == SomePattern(options.excludePatterns, node.path)
    IN  matchesInclude /\ ~matchesExclude

\* the depth guard letting one more level through
TooDeepByTwo(options) == options.currentDepth > options.maxDepth + 1

\* the guard that ends the recursion
TooDeep(options) == options.currentDepth > options.maxDepth

\* the guard that ends the loop over the children
Enough(found, options) == Len(found) >= options.maxFiles

\* the merge without its slice
MergeUnsliced(found, childResults, options) == found \o childResults

\* the merge with the child's files put first
MergePrepended(found, childResults, options) == Slice(childResults \o found, options.maxFiles)

\* results = [...results, ...childResults].slice(0, maxFiles)
Merge(found, childResults, options) == Slice(found \o childResults, options.maxFiles)

RECURSIVE findRelevantFiles(_, _)
RECURSIVE SelectChildren(_, _, _)

\* the for loop of findRelevantFiles over the children not yet visited
SelectChildren(children, options, found) ==
    IF children = <<>> \/ Enough(found, options) THEN found
    ELSE
        LET childResults == findRelevantFiles(
                                Head(children),
                                [options EXCEPT !.currentDepth = options.currentDepth + 1])
        IN  SelectChildren(Tail(children), options, Merge(found, childResults, options))

findRelevantFiles(node, options) ==
    IF TooDeep(options) THEN <<>>
    ELSE IF node.type = "directory" THEN SelectChildren(node.children, options, <<>>)
    ELSE IF node.type = "file"
    THEN IF IsCandidate(node, options)
         THEN <<[path |-> node.path, absolutePath |-> Resolve(node.path)]>>
         ELSE <<>>
    ELSE <<>>

----------------------------------------------------------------------------
(* Context Assembler: content retrieval and the content cache. *)

\* getFileContent reading a Map entry as a property: a hit returns no content
getFileContentLosingHits(filePath, cache, d) ==
    IF filePath \in DOMAIN cache
    THEN [content |-> NullValue, cache |-> cache, hit |-> TRUE]
    ELSE IF FileExists(filePath, d)
    THEN [content |-> StringValue(FileContent(filePath, d)),
          cache   |-> [k \in DOMAIN cache \cup {filePath} |->
                          IF k = filePath THEN FileContent(filePath, d) ELSE cache[k]],
          hit     |-> FALSE]
    ELSE [content |-> NullValue, cache |-> cache, hit |-> FALSE]

\* getFileContent without its cache lookup: every call reads the disk and stores
getFileContentRereading(filePath, cache, d) ==
    IF FileExists(filePath, d)
    THEN [content |-> StringValue(FileContent(filePath, d)),
          cache   |-> [k \in DOMAIN cache \cup {filePath} |->
                          IF k = filePath THEN FileContent(filePath, d) ELSE cache[k]],
          hit     |-> filePath \in DOMAIN cache]
    ELSE [content |-> NullValue, cache |-> cache, hit |-> filePath \in DOMAIN cache]

\* getFileContent(filePath) against cache and disk: the value returned and the cache left
getFileContent(filePath, cache, d) ==
    IF filePath \in DOMAIN cache
    THEN [content |-> StringValue(cache[filePath]), cache |-> cache, hit |-> TRUE]
    ELSE IF FileExists(filePath, d)
    THEN [content |-> StringValue(FileContent(filePath, d)),
          cache   |-> [k \in DOMAIN cache \cup {filePath} |->
                          IF k = filePath THEN FileContent(filePath, d) ELSE cache[k]],
          hit     |-> FALSE]
    ELSE [content |-> NullValue, cache |-> cache, hit |-> FALSE]

\* relevantFiles.map(getFileContext) up to each call's await: the reads, in order
RECURSIVE ReadFrom(_, _, _)
ReadFrom(files, d, done) ==
    IF files = <<>> THEN done
    ELSE
        LET first == getFileContent(Head(files).absolutePath, done.cache, d)
        IN  ReadFrom(Tail(files), d,
                     [contents |-> Append(done.contents, first.content),
                      hits     |-> Append(done.hits, first.hit),
                      cache    |-> first.cache])

ReadAll(files, cache, d) ==
    ReadFrom(files, d, [contents |-> <<>>, hits |-> <<>>, cache |-> cache])

\* getFileContext(filePath) after its await: null, a context, or the error of statSync
getFileContext(filePath, content, d) ==
    IF Falsy(content) THEN [type |-> "null"]
    ELSE IF ~FileExists(filePath, d) THEN Throw("stat " \o filePath)
    ELSE [type         |-> "context",
          path         |-> filePath,
          content      |-> content[1],
          extension    |-> Extname(filePath),
          lastModified |-> FileMtime(filePath, d)]

----------------------------------------------------------------------------
(* Context Assembler: generateProjectContext. *)

DefaultMaxFiles == 10
DefaultMaxDepth == 3

\* the destructuring defaults: a default replaces a field that is absent
WithDefaults(options) ==
    [maxFiles        |-> IF "maxFiles" \in DOMAIN options
                         THEN options.maxFiles ELSE DefaultMaxFiles,
     maxDepth        |-> IF "maxDepth" \in DOMAIN options
                         THEN options.maxDepth ELSE DefaultMaxDepth,
     includePatterns |-> IF "includePatterns" \in DOMAIN options
                         THEN options.includePatterns ELSE <<>>,
     excludePatterns |-> IF "excludePatterns" \in DOMAIN options
                         THEN options.excludePatterns ELSE <<>>]

\* the guard left out
NotScannedIgnored(structure) == FALSE

\* !this.projectStructure
NotScanned(structure) == structure.type = "null"

NotScannedMessage == "Project has not been scanned yet"

\* the selection generateProjectContext makes in the stored tree
RelevantFiles(structure, policy) ==
    findRelevantFiles(structure,
                      [maxFiles        |-> policy.maxFiles,
                       maxDepth        |-> policy.maxDepth,
                       includePatterns |-> policy.includePatterns,
                       excludePatterns |-> policy.excludePatterns,
                       currentDepth    |-> 0])

\* the contexts filtered in the order of completion, last issued first
RECURSIVE NotNullReversed(_)
NotNullReversed(contexts) ==
    IF contexts = <<>> THEN <<>>
    ELSE NotNullReversed(Tail(contexts))
            \o (IF Head(contexts).type # "null" THEN <<Head(contexts)>> ELSE <<>>)

\* fileContexts.filter((context) => context !== null)
NotNull(contexts) == SelectSeq(contexts, LAMBDA context : context.type # "null")

\* before any call completed
NoCall == [outcome |-> "none"]

\* history: the files of the call completed before this one, when that call returned,
\* had the same tree and policy, and no file changed since it began
Previous(call) ==
    IF /\ last.outcome = "ok"
       /\ last.policy = call.policy
       /\ last.tree = call.tree
       /\ last.beginClock = clock
    THEN <<last.files>> ELSE <<>>

----------------------------------------------------------------------------
(* Rendering and the answers of the request handlers. *)

\* the glyphs of formatProjectStructure (U+1F4C1 and U+1F4C4), written in ASCII
FolderGlyph == "[D]"
FileGlyph == "[F]"

\* "  ".repeat(depth)
RECURSIVE Repeat(_, _)
Repeat(s, count) == IF count <= 0 THEN "" ELSE s \o Repeat(s, count - 1)

RECURSIVE formatProjectStructure(_, _)
RECURSIVE FormatChildren(_, _)

\* node.children.forEach of formatProjectStructure
FormatChildren(children, depth) ==
    IF children = <<>> THEN ""
    ELSE formatProjectStructure(Head(children), depth) \o FormatChildren(Tail(children), depth)

formatProjectStructure(node, depth) ==
    LET indent == Repeat("  ", depth)
    IN  IF node.type = "directory"
        THEN indent \o FolderGlyph \o " " \o node.name \o "/\n"
                \o FormatChildren(node.children, depth + 1)
        ELSE indent \o FileGlyph \o " " \o node.name \o "\n"

\* context.relevantFiles.forEach of enhancePromptWithContext
RECURSIVE FileBlocks(_)
FileBlocks(files) ==
    IF files = <<>> THEN ""
    ELSE "--- FILE: " \o Head(files).path \o " ---\n"
            \o Head(files).content \o "\n\n" \o FileBlocks(Tail(files))

enhancePromptWithContext(prompt, context) ==
    LET contextBlock == "PROJECT CONTEXT:\n\n"
                            \o "Project Structure:\n"
                            \o formatProjectStructure(context.projectStructure, 0)
                            \o "\n\n"
                            \o "Relevant Files:\n\n"
                            \o FileBlocks(context.relevantFiles)
    IN  contextBlock \o "\n\nUSER QUERY:\n" \o prompt

\* file.content.substring(0, 200) + (file.content.length > 200 ? "..." : "")
ContentPreview(content) ==
    IF Len(content) > 200 THEN SubSeq(content, 1, 200) \o "..." ELSE content

\* a generateProjectContext call no request handler made
NoRequest == [handler |-> "none"]

\* what the handler of a request answers once generateProjectContext has
\* returned or thrown
Respond(request, outcome, message, structure, files) ==
    IF request.handler = "add-context"
    THEN IF outcome = "ok"
         THEN [threw |-> FALSE,
               enhancedPrompt |-> enhancePromptWithContext(
                                      request.prompt,
                                      [projectStructure |-> structure, relevantFiles |-> files]),
               filesIncluded |-> Len(files)]
         ELSE [threw |-> TRUE, message |-> "Failed to add context: " \o message]
    ELSE IF request.handler = "/context"
    THEN IF outcome = "ok"
         THEN [status |-> 200,
               projectStructure |-> structure,
               relevantFiles |-> [k \in 1..Len(files) |->
                                     [path |-> files[k].path,
                                      extension |-> files[k].extension,
                                      lastModified |-> files[k].lastModified,
                                      contentPreview |-> ContentPreview(files[k].content)]]]
         ELSE [status |-> 500, error |-> "Failed to get context", message |-> message]
    ELSE [handler |-> "none"]

----------------------------------------------------------------------------
(* Context Assembler: the calls of generateProjectContext. *)

\* a completed call: what it returned or threw, what it went through, and what
\* the request handler that made the call answered
Completed(outcome, message, call, structure, files) ==
    [outcome |-> outcome, message |-> message, policy |-> call.policy, tree |-> call.tree,
     projectStructure |-> structure, relevantFiles |-> call.relevantFiles,
     contents |-> call.contents, hits |-> call.hits, files |-> files,
     beginClock |-> call.beginClock, endClock |-> clock, previous |-> Previous(call),
     request |-> call.request,
     response |-> Respond(call.request, outcome, message, structure, files)]

\* a call that has selected nothing and read nothing
Started(policy) ==
    [policy |-> policy, tree |-> projectStructure, relevantFiles |-> <<>>,
     contents |-> <<>>, hits |-> <<>>, beginClock |-> clock, request |-> NoRequest]

\* generateProjectContext(options) up to its await: the guard, the selection and
\* the reads, which relevantFiles.map issues before the first promise settles.
\* The event loop runs one request handler at a time.
BeginContext(options) ==
    /\ pending = <<>>
    /\ LET policy == WithDefaults(options)
       IN  IF NotScanned(projectStructure)
           THEN /\ last' = Completed("throw", NotScannedMessage, Started(policy),
                                     NoStructure, <<>>)
                /\ UNCHANGED <<fileCache, firstRead, pending>>
           ELSE \E relevantFiles \in {RelevantFiles(projectStructure, policy)} :
                \E read \in {ReadAll(relevantFiles, fileCache, disk)} :
                    /\ fileCache' = read.cache
                    /\ firstRead' = [k \in DOMAIN read.cache |->
                                        IF k \in DOMAIN firstRead THEN firstRead[k]
                                        ELSE FileMtime(k, disk)]
                    /\ pending' = <<[Started(policy) EXCEPT
                                        !.relevantFiles = relevantFiles,
                                        !.contents = read.contents,
                                        !.hits = read.hits]>>
                    /\ UNCHANGED last
    /\ UNCHANGED <<projectStructure, disk, clock>>

\* the rest of generateProjectContext: every getFileContext resumes and stats its
\* file, Promise.all joins them in selection order, the nulls are filtered out
EndContext ==
    /\ pending # <<>>
    /\ LET call     == pending[1]
           n        == Len(call.relevantFiles)
           contexts == [i \in 1..n |->
                           getFileContext(call.relevantFiles[i].absolutePath,
                                          call.contents[i], disk)]
           thrown   == {i \in 1..n : contexts[i].type = "throw"}
           first    == CHOOSE i \in thrown : \A j \in thrown : i <= j
       IN  last' = IF thrown # {}
                   THEN Completed("throw", contexts[first].message, call, NoStructure, <<>>)
                   ELSE Completed("ok", "", call, projectStructure, NotNull(contexts))
    /\ pending' = <<>>
    /\ UNCHANGED <<projectStructure, fileCache, disk, clock, firstRead>>

----------------------------------------------------------------------------
(* Other processes. *)

WriteFile(f, content) ==
    /\ clock < MaxFsOps
    /\ clock' = clock + 1
    /\ disk' = [disk EXCEPT ![f] = [exists |-> TRUE, content |-> content, mtime |-> clock + 1]]
    /\ UNCHANGED <<projectStructure, fileCache, pending, last, firstRead>>

DeleteFile(f) ==
    /\ clock < MaxFsOps
    /\ disk[f].exists
    /\ clock' = clock + 1
    /\ disk' = [disk EXCEPT ![f] = [exists |-> FALSE, content |-> "", mtime |-> 0]]
    /\ UNCHANGED <<projectStructure, fileCache, pending, last, firstRead>>

----------------------------------------------------------------------------
(* The server process and its environment. *)

\* the options callers pass to generateProjectContext
Requests ==
    { [x \in {} |-> 0],
      [maxFiles |-> 0],
      [maxFiles |-> 2, excludePatterns |-> <<StringPattern("test")>>] }

InitialDisk == [f \in Watched |-> [exists |-> TRUE, content |-> InitialContent(f), mtime |-> 0]]

Init ==
    /\ projectStructure = NoStructure
    /\ fileCache = [k \in {} |-> ""]
    /\ disk = InitialDisk
    /\ clock = 0
    /\ pending = <<>>
    /\ last = NoCall
    /\ firstRead = [k \in {} |-> 0]

Next ==
    \/ \E projectRoot \in Roots : scanProject(projectRoot)
    \/ \E options \in Requests : BeginContext(options)
    \/ EndContext
    \/ \E f \in Watched, content \in Written : WriteFile(f, content)
    \/ \E f \in Watched : DeleteFile(f)

Spec == Init /\ [][Next]_vars

----------------------------------------------------------------------------
(* The request handlers of startMcpServer: the add-context tool and the      *)
(* /context resource, both on the one ContextManager of the process.         *)

NoParams == [field \in {} |-> 0]

\* value || fallback for a number: undefined and 0 are falsy
NumberOr(params, field, fallback) ==
    IF field \in DOMAIN params /\ params[field] # 0 THEN params[field] ELSE fallback

\* value || fallback for a string: undefined and "" are falsy
StringOr(params, field, fallback) ==
    IF field \in DOMAIN params /\ params[field] # "" THEN params[field] ELSE fallback

\* value || fallback for an array: only undefined is falsy
ArrayOr(params, field, fallback) ==
    IF field \in DOMAIN params THEN params[field] ELSE fallback

DigitOf ==
    ("0" :> 0) @@ ("1" :> 1) @@ ("2" :> 2) @@ ("3" :> 3) @@ ("4" :> 4) @@
    ("5" :> 5) @@ ("6" :> 6) @@ ("7" :> 7) @@ ("8" :> 8) @@ ("9" :> 9)

\* parseInt of a string of decimal digits
RECURSIVE ParseDigits(_, _)
ParseDigits(text, value) ==
    IF text = "" \/ Char(text, 1) \notin DOMAIN DigitOf THEN value
    ELSE ParseDigits(SubSeq(text, 2, Len(text)), 10 * value + DigitOf[Char(text, 1)])

ParseInt(text) == ParseDigits(text, 0)

\* JSON.parse of the text of an array of strings without escapes: the strings
\* between the first and second quote, the third and fourth, and so on
JsonParse(text) ==
    LET quotes == {i \in 1..Len(text) : Char(text, i) = "\""}
        Rank(i) == Cardinality({j \in quotes : j <= i})
        opening == {i \in quotes : Rank(i) % 2 = 1}
        Nth(k)  == CHOOSE i \in opening : Rank(i) = 2 * k - 1
        Closing(i) == CHOOSE j \in quotes : Rank(j) = Rank(i) + 1
    IN  [k \in 1..Cardinality(opening) |-> SubSeq(text, Nth(k) + 1, Closing(Nth(k)) - 1)]

\* a string of a pattern array is a string pattern to matchesPattern
StringPatterns(texts) == [k \in 1..Len(texts) |-> StringPattern(texts[k])]

\* the options the add-context handler passes to generateProjectContext
AddContextOptions(params) ==
    [maxFiles        |-> NumberOr(params, "maxFiles", 10),
     maxDepth        |-> NumberOr(params, "maxDepth", 3),
     includePatterns |-> ArrayOr(params, "includePatterns", <<>>),
     excludePatterns |-> ArrayOr(params, "excludePatterns", <<>>)]

\* the options the /context handler passes to generateProjectContext
ContextOptions(query) ==
    [maxFiles        |-> ParseInt(StringOr(query, "maxFiles", "10")),
     maxDepth        |-> ParseInt(StringOr(query, "maxDepth", "3")),
     includePatterns |-> IF StringOr(query, "includePatterns", "") # ""
                         THEN StringPatterns(JsonParse(query.includePatterns)) ELSE <<>>,
     excludePatterns |-> IF StringOr(query, "excludePatterns", "") # ""
                         THEN StringPatterns(JsonParse(query.excludePatterns)) ELSE <<>>]

\* params.projectRoot || process.cwd()
ProjectRootOf(params) == StringOr(params, "projectRoot", Cwd)

\* a handler up to the await of generateProjectContext: the scan when no tree is
\* stored, then the selection and the reads. A scan that throws ends the handler
\* in its catch block.
HandleRequest(request, projectRoot, options) ==
    /\ pending = <<>>
    /\ \E structure \in {IF NotScanned(projectStructure)
                         THEN buildProjectStructure(projectRoot, "", disk)
                         ELSE projectStructure} :
        IF structure.type = "throw"
        THEN /\ last' = Completed("throw", structure.message,
                                  [Started(WithDefaults(options)) EXCEPT !.request = request],
                                  NoStructure, <<>>)
             /\ UNCHANGED <<projectStructure, fileCache, firstRead, pending>>
        ELSE \E relevantFiles \in {RelevantFiles(structure, WithDefaults(options))} :
             \E read \in {ReadAll(relevantFiles, fileCache, disk)} :
                 /\ projectStructure' = structure
                 /\ fileCache' = read.cache
                 /\ firstRead' = [k \in DOMAIN read.cache |->
                                     IF k \in DOMAIN firstRead THEN firstRead[k]
                                     ELSE FileMtime(k, disk)]
                 /\ pending' = <<[Started(WithDefaults(options)) EXCEPT
                                     !.tree = structure,
                                     !.relevantFiles = relevantFiles,
                                     !.contents = read.contents,
                                     !.hits = read.hits,
                                     !.request = request]>>
                 /\ UNCHANGED last
    /\ UNCHANGED <<disk, clock>>

\* the handler of the add-context tool
AddContextTool(params, prompt) ==
    HandleRequest([handler |-> "add-context", params |-> params, query |-> NoParams,
                   prompt |-> prompt],
                  ProjectRootOf(params), AddContextOptions(params))

\* the handler of GET /context
ContextResource(query) ==
    HandleRequest([handler |-> "/context", params |-> NoParams, query |-> query,
                   prompt |-> ""],
                  ProjectRootOf(query), ContextOptions(query))

\* the parameters tool callers send
ToolParams ==
    { NoParams,
      [projectRoot |-> "/p"],
      [projectRoot |-> "/q"],
      [projectRoot |-> "/w", maxFiles |-> 0],
      [projectRoot |-> "", maxDepth |-> 0, excludePatterns |-> <<StringPattern("test")>>] }

\* the query strings GET /context receives
Queries ==
    { [projectRoot |-> "/missing"],
      [projectRoot |-> "/p", maxFiles |-> "0"],
      [includePatterns |-> "[\"deep\",\"index\"]", maxFiles |-> "12"] }

Prompts == {"why"}

NextServer ==
    \/ \E params \in ToolParams, prompt \in Prompts : AddContextTool(params, prompt)
    \/ \E query \in Queries : ContextResource(query)
    \/ EndContext
    \/ \E f \in Watched, content \in Written : WriteFile(f, content)
    \/ \E f \in Watched : DeleteFile(f)

SpecServer == Init /\ [][NextServer]_vars

----------------------------------------------------------------------------
(* Selection as a function of tree and policy: every tree a scan returns,    *)
(* every policy of the ranges below, one generateProjectContext call each.   *)

MaxFilesAsked == 3
MaxDepthAsked == 3

PatternLists ==
    { <<>>,
      <<StringPattern("src")>>,
      <<StringPattern(".js")>>,
      <<StringPattern("test"), RegExpPattern("ts$")>> }

AllRequests ==
    [maxFiles : 0..MaxFilesAsked, maxDepth : 0..MaxDepthAsked,
     includePatterns : PatternLists, excludePatterns : PatternLists]

\* the disks a scan may have met: every watched file present or not
ScannedDisks ==
    {[f \in Watched |-> [exists |-> f \in present, content |-> InitialContent(f), mtime |-> 0]] :
        present \in SUBSET Watched}

ScannedTrees ==
    {tree \in {buildProjectStructure(projectRoot, "", d) : projectRoot \in Roots, d \in ScannedDisks} :
        tree.type = "directory"}

\* the disks a call may read: the initial one, and one with every watched file rewritten
ReadDisks ==
    {InitialDisk, [f \in Watched |-> [exists |-> TRUE, content |-> "w2", mtime |-> 0]]}

InitSelection ==
    /\ projectStructure \in ScannedTrees
    /\ fileCache = [k \in {} |-> ""]
    /\ disk \in ReadDisks
    /\ clock = 0
    /\ pending = <<>>
    /\ last = NoCall
    /\ firstRead = [k \in {} |-> 0]

NextSelection ==
    \/ \E options \in AllRequests : last = NoCall /\ BeginContext(options)
    \/ EndContext

SpecSelection == InitSelection /\ [][NextSelection]_vars

----------------------------------------------------------------------------
(* What the claims speak of, stated on the tree itself. *)

RECURSIVE Leaves(_)
RECURSIVE LeavesOfAll(_)

\* the file leaves below a node in depth-first pre-order of the children order
Leaves(node) ==
    IF node.type = "file" THEN <<node>> ELSE LeavesOfAll(node.children)

LeavesOfAll(nodes) ==
    IF nodes = <<>> THEN <<>> ELSE Leaves(Head(nodes)) \o LeavesOfAll(Tail(nodes))

\* the number of ancestor directories of a leaf, the root included
DepthOf(relativePath) ==
    1 + Cardinality({i \in 1..Len(relativePath) : Char(relativePath, i) = "/"})

PatternMatches(relativePath, pattern) ==
    IF pattern.kind = "string"
    THEN \E i \in 1..(Len(relativePath) + 1), j \in 0..Len(relativePath) :
            /\ i + j - 1 <= Len(relativePath)
            /\ SubSeq(relativePath, i, i + j - 1) = pattern.text
    ELSE RegExpTest(pattern.text, relativePath)

MatchesSome(relativePath, patterns) ==
    \E i \in 1..Len(patterns) : PatternMatches(relativePath, patterns[i])

PassesPatterns(leaf, policy) ==
    /\ policy.includePatterns = <<>> \/ MatchesSome(leaf.path, policy.includePatterns)
    /\ ~MatchesSome(leaf.path, policy.excludePatterns)

\* all candidates of a tree under a policy, in traversal order
Candidates(tree, policy) ==
    SelectSeq(Leaves(tree),
              LAMBDA leaf : DepthOf(leaf.path) <= policy.maxDepth /\ PassesPatterns(leaf, policy))

PathsOf(files) == [i \in 1..Len(files) |-> files[i].path]

Smaller(a, b) == IF a < b THEN a ELSE b

Returned == last.outcome = "ok"

\* C1: the files sequence a generateProjectContext call returns is never longer
\* than the maxFiles of its policy, maxFiles = 0 included
C1_FilesWithinMaxFiles ==
    Returned => Len(last.files) <= last.policy.maxFiles

\* a call returned as many files as its cap allows although more candidates existed
C1_Witness ==
    /\ Returned
    /\ last.policy.maxFiles > 0
    /\ Len(last.files) = last.policy.maxFiles
    /\ Len(Candidates(last.tree, last.policy)) > last.policy.maxFiles

\* C2: the selected files are exactly the first min(maxFiles, n) of the n candidates
\* listed in depth-first pre-order, in that order
C2_SelectionIsPrefix ==
    Returned =>
        LET all == PathsOf(Candidates(last.tree, last.policy))
        IN  PathsOf(last.relevantFiles)
              = SubSeq(all, 1, Smaller(last.policy.maxFiles, Len(all)))

\* a selection cut by maxFiles that holds files of the root and of a subdirectory
C2_Witness ==
    /\ Returned
    /\ Len(last.relevantFiles) = last.policy.maxFiles
    /\ Len(Candidates(last.tree, last.policy)) > last.policy.maxFiles
    /\ \E i, j \in 1..Len(last.relevantFiles) :
          DepthOf(last.relevantFiles[i].path) # DepthOf(last.relevantFiles[j].path)

\* C3: no selected file lies deeper than maxDepth, a file of the root lying at
\* depth 1; with maxDepth = 0 nothing is selected
C3_SelectionWithinMaxDepth ==
    Returned =>
        /\ \A i \in 1..Len(last.relevantFiles) :
              DepthOf(last.relevantFiles[i].path) <= last.policy.maxDepth
        /\ last.policy.maxDepth = 0 => last.relevantFiles = <<>>

\* a file at depth maxDepth is selected while a deeper file that passes the
\* patterns is left out although maxFiles was not reached
C3_Witness ==
    /\ Returned
    /\ Len(last.relevantFiles) < last.policy.maxFiles
    /\ \E i \in 1..Len(last.relevantFiles) :
          DepthOf(last.relevantFiles[i].path) = last.policy.maxDepth
    /\ \E k \in 1..Len(Leaves(last.tree)) :
          /\ DepthOf(Leaves(last.tree)[k].path) > last.policy.maxDepth
          /\ PassesPatterns(Leaves(last.tree)[k], last.policy)

Selected(leaf) == \E i \in 1..Len(last.relevantFiles) : last.relevantFiles[i].path = leaf.path

\* C4: a leaf within the depth bound is selected only if it passes the include
\* test and matches no exclude pattern, every such leaf is selected while maxFiles
\* is not reached, and a leaf matching both an include and an exclude pattern is
\* never selected
C4_CandidateTest ==
    Returned =>
        \A k \in 1..Len(Leaves(last.tree)) :
            LET leaf == Leaves(last.tree)[k]
            IN  /\ Selected(leaf) => PassesPatterns(leaf, last.policy)
                /\ ( /\ PassesPatterns(leaf, last.policy)
                     /\ DepthOf(leaf.path) <= last.policy.maxDepth
                     /\ Len(last.relevantFiles) < last.policy.maxFiles ) => Selected(leaf)
                /\ ( /\ MatchesSome(leaf.path, last.policy.includePatterns)
                     /\ MatchesSome(leaf.path, last.policy.excludePatterns) ) => ~Selected(leaf)

\* a leaf within reach matches an include and an exclude pattern and is left out
\* while another leaf is selected and maxFiles is not reached
C4_Witness ==
    /\ Returned
    /\ last.relevantFiles # <<>>
    /\ Len(last.relevantFiles) < last.policy.maxFiles
    /\ \E k \in 1..Len(Leaves(last.tree)) :
          LET leaf == Leaves(last.tree)[k]
          IN  /\ DepthOf(leaf.path) <= last.policy.maxDepth
              /\ MatchesSome(leaf.path, last.policy.includePatterns)
              /\ MatchesSome(leaf.path, last.policy.excludePatterns)
              /\ ~Selected(leaf)

\* C5: a generateProjectContext call made while no tree is stored throws the
\* not-scanned error, selects and reads nothing, and leaves the content cache and
\* the stored tree as they were
C5_NotScannedThrows ==
    [][ (projectStructure = NoStructure /\ (last' # last \/ pending' # pending)) =>
            /\ last'.outcome = "throw"
            /\ last'.message = NotScannedMessage
            /\ last'.relevantFiles = <<>>
            /\ last'.contents = <<>>
            /\ pending' = <<>>
            /\ fileCache' = fileCache
            /\ projectStructure' = projectStructure ]_vars

\* a call has thrown the not-scanned error on a disk that holds readable files
C5_Witness ==
    /\ last.outcome = "throw"
    /\ last.message = NotScannedMessage
    /\ projectStructure = NoStructure
    /\ \E f \in Watched : disk[f].exists

----------------------------------------------------------------------------
(* Claims about content retrieval and the content cache. *)

\* the call went past the not-scanned guard and completed
Assembled == last.outcome \in {"ok", "throw"} /\ last.message # NotScannedMessage

InFiles(filePath) == \E k \in 1..Len(last.files) : last.files[k].path = filePath

\* C6: when the read of a selected file fails, the generateProjectContext call
\* still returns, without that file and with every other selected file whose
\* read succeeded
C6_ReadFailureTolerated ==
    Assembled =>
        LET n      == Len(last.relevantFiles)
            failed == {i \in 1..n : last.contents[i] = NullValue}
        IN  failed # {} =>
                /\ Returned
                /\ \A i \in failed : ~InFiles(last.relevantFiles[i].absolutePath)
                /\ \A j \in (1..n) \ failed : InFiles(last.relevantFiles[j].absolutePath)

\* C7: once a file's content is in the cache, every later generateProjectContext
\* call that selects the file returns, with an entry for the file that carries the
\* cached content, whatever happened to the file on disk (stated for cached
\* content other than the empty string)
C7_CachedFileAlwaysReturned ==
    Assembled =>
        \A i \in 1..Len(last.relevantFiles) :
            (last.hits[i] /\ last.contents[i] # StringValue("")) =>
                /\ Returned
                /\ \E k \in 1..Len(last.files) :
                      /\ last.files[k].path = last.relevantFiles[i].absolutePath
                      /\ last.files[k].content = last.contents[i][1]

ContentsOf(files) == [k \in 1..Len(files) |-> <<files[k].path, files[k].content>>]

\* C8: a generateProjectContext call that follows a returned call with the same
\* stored tree and the same policy, no file having changed since that call began,
\* returns the same paths in the same order with the same content
C8_RepeatIsIdentical ==
    (Assembled /\ last.previous # <<>>) =>
        /\ Returned
        /\ ContentsOf(last.files) = ContentsOf(last.previous[1])

\* a repeated call returned files it took from the cache
C8_Witness ==
    /\ Returned
    /\ last.previous # <<>>
    /\ last.files # <<>>
    /\ \A i \in 1..Len(last.hits) : last.hits[i]

C10_LastModifiedOfFirstRead ==
    Returned =>
        \A k \in 1..Len(last.files) :
            last.files[k].lastModified = firstRead[last.files[k].path]

----------------------------------------------------------------------------
(* Claims about the scanned tree. *)

\* every node of a tree, the root included
RECURSIVE AllNodes(_)
AllNodes(node) ==
    IF node.type = "file" THEN {node}
    ELSE {node} \cup UNION {AllNodes(node.children[i]) : i \in 1..Len(node.children)}

\* the names a path is made of
NamesOf(p) ==
    {SubSeq(p, i, j) : <<i, j>> \in
        {<<a, b>> \in (1..Len(p)) \X (1..Len(p)) :
            /\ a <= b
            /\ a = 1 \/ Char(p, a - 1) = "/"
            /\ b = Len(p) \/ Char(p, b + 1) = "/"
            /\ \A k \in a..b : Char(p, k) # "/"}}

PrunedName(name) ==
    \/ name \in {"node_modules", ".git", "dist", "build"}
    \/ Len(name) > 0 /\ Char(name, 1) = "."

\* the entries below a root that exist on a disk, as paths relative to the root
EntriesBelow(root, d) ==
    {SubSeq(p, Len(root) + 2, Len(p)) :
        p \in {q \in Directories \cup {f \in DOMAIN Fixed \cup Watched : FileExists(f, d)} :
                  /\ Len(q) > Len(root) + 1
                  /\ SubSeq(q, 1, Len(root) + 1) = root \o "/"}}

\* the root a stored tree was scanned from
RootOf(tree) == "/" \o tree.name

\* C11: the tree a scan stores holds no node for an entry named node_modules,
\* .git, dist or build or whose name begins with ".", and no node below such an
\* entry; every other directory below the root has its node
C11_PrunedAbsent ==
    [][ projectStructure' # projectStructure =>
            LET tree == projectStructure'
                below == AllNodes(tree) \ {tree}
            IN  /\ \A node \in below :
                      /\ node.path \in EntriesBelow(RootOf(tree), disk)
                      /\ node.name \in NamesOf(node.path)
                      /\ \A name \in NamesOf(node.path) : ~PrunedName(name)
                /\ \A p \in EntriesBelow(RootOf(tree), disk) :
                      ( /\ RootOf(tree) \o "/" \o p \in Directories
                        /\ \A name \in NamesOf(p) : ~PrunedName(name) )
                      => \E node \in below : node.type = "directory" /\ node.path = p
      ]_vars

\* a stored tree of a root that holds a pruned directory with a code file in it,
\* next to a directory that was kept
C11_Witness ==
    /\ projectStructure # NoStructure
    /\ \E p \in EntriesBelow(RootOf(projectStructure), disk) :
          /\ \E name \in NamesOf(p) : PrunedName(name)
          /\ EndsWith(p, ".js")
    /\ \E node \in AllNodes(projectStructure) : node.type = "directory" /\ node.path # ""

\* the name ends, in whatever letter case, with one of the seven extensions
HasCodeExtension(name) ==
    \E ext \in {".js", ".jsx", ".ts", ".tsx", ".json", ".html", ".css"} :
        /\ Len(name) > Len(ext)
        /\ ToLowerCase(SubSeq(name, Len(name) - Len(ext) + 1, Len(name))) = ext

\* the files below a root that are under no pruned entry and carry a code extension
CodeFilesBelow(root, d) ==
    {p \in EntriesBelow(root, d) :
        /\ root \o "/" \o p \notin Directories
        /\ \A name \in NamesOf(p) : ~PrunedName(name)
        /\ HasCodeExtension(p)}

\* C12: the file leaves of the tree a scan stores are exactly the files below the
\* root that are under no pruned entry and whose extension, letter case aside, is
\* one of .js .jsx .ts .tsx .json .html .css; no other file is ever selected
C12_LeavesAreCodeFiles ==
    /\ [][ projectStructure' # projectStructure =>
               LET tree   == projectStructure'
                   leaves == {node \in AllNodes(tree) : node.type = "file"}
               IN  /\ {leaf.path : leaf \in leaves} = CodeFilesBelow(RootOf(tree), disk)
                   /\ \A leaf \in leaves :
                         /\ HasCodeExtension(leaf.name)
                         /\ leaf.extension \in {".js", ".jsx", ".ts", ".tsx", ".json", ".html", ".css"}
         ]_vars
    /\ [](\A i \in 1..Len(IF last = NoCall THEN <<>> ELSE last.relevantFiles) :
              HasCodeExtension(last.relevantFiles[i].path))

\* a stored tree with a leaf whose extension is in upper case, scanned from a
\* root that also holds a text file and a file without extension, and a call
\* that selected the leaf
C12_Witness ==
    /\ projectStructure # NoStructure
    /\ \E leaf \in AllNodes(projectStructure) : leaf.type = "file" /\ leaf.name = "d.JS"
    /\ \E p \in EntriesBelow(RootOf(projectStructure), disk) : EndsWith(p, ".txt")
    /\ \E p \in EntriesBelow(RootOf(projectStructure), disk) : p = "README"
    /\ Returned
    /\ \E i \in 1..Len(last.relevantFiles) : last.relevantFiles[i].path = "src/deep/d.JS"

----------------------------------------------------------------------------
(* Claims about the assembled result. *)

\* position of a path in the selection of the last call
SelectionIndex(filePath) ==
    CHOOSE i \in 1..Len(last.relevantFiles) : last.relevantFiles[i].absolutePath = filePath

C18_OnlyFailedReadsDropped ==
    Returned =>
        \A i \in 1..Len(last.relevantFiles) :
            last.contents[i] # NullValue => InFiles(last.relevantFiles[i].absolutePath)

\* the path of a selected file under the root its tree was scanned from
UnderScanRoot(tree, file) == RootOf(tree) \o "/" \o file.path

\* C19: a selected file is read and cached under the scan root joined with its
\* relative path, whatever the working directory, and a selected file that is
\* readable there has its entry in files
C19_ReadUnderScanRoot ==
    Returned =>
        \A i \in 1..Len(last.relevantFiles) :
            /\ last.relevantFiles[i].absolutePath = UnderScanRoot(last.tree, last.relevantFiles[i])
            /\ UnderScanRoot(last.tree, last.relevantFiles[i]) \in DOMAIN Fixed
                  => InFiles(UnderScanRoot(last.tree, last.relevantFiles[i]))

----------------------------------------------------------------------------
(* Claims about the request handlers. *)

\* the last completed call was made by a request handler
Handled == last # NoCall /\ last.request.handler # "none"

\* what the request of the last call supplied, whichever handler took it
SuppliedBy(request) == IF request.handler = "add-context" THEN request.params ELSE request.query

\* the relative path of the tree node a files entry was selected from
RelativePathOf(file) == last.relevantFiles[SelectionIndex(file.path)].path

\* header with the relative path, the full content, a blank line: for every file
RECURSIVE BlocksWithRelativePaths(_)
BlocksWithRelativePaths(files) ==
    IF files = <<>> THEN ""
    ELSE "--- FILE: " \o RelativePathOf(Head(files)) \o " ---\n"
            \o Head(files).content \o "\n\n" \o BlocksWithRelativePaths(Tail(files))

ListedFrom(root) ==
    {root} \cup {dir \in Directories :
                    /\ Len(dir) > Len(root) + 1
                    /\ SubSeq(dir, 1, Len(root) + 1) = root \o "/"
                    /\ \A name \in NamesOf(SubSeq(dir, Len(root) + 2, Len(dir))) : ~PrunedName(name)}

\* the root is missing or no directory, or a directory to list cannot be listed
ScanMustFail(root) ==
    \E dir \in ListedFrom(root) : dir \notin Directories \/ dir \in Unlistable

\* C15: a request that finds no tree stored and names a root whose scan fails is
\* answered with the error of the scan, and neither a tree nor a cache entry is
\* stored, so that no stored tree ever comes from such a root; a request naming
\* a root whose scan succeeds stores the tree
C15_FailedScanStoresNothing ==
    /\ [][ (projectStructure = NoStructure /\ (last' # last \/ pending' # pending)) =>
               IF ScanMustFail(ProjectRootOf(SuppliedBy(
                      IF pending' # <<>> THEN pending'[1].request ELSE last'.request)))
               THEN /\ pending' = <<>>
                    /\ last'.outcome = "throw"
                    /\ \E dir \in Directories \cup {ProjectRootOf(SuppliedBy(last'.request))} :
                          last'.message = "readdir " \o dir
                    /\ IF last'.request.handler = "add-context"
                       THEN last'.response.threw
                       ELSE last'.response.status = 500
                    /\ Includes(last'.response.message, last'.message)
                    /\ projectStructure' = NoStructure
                    /\ fileCache' = fileCache
               ELSE /\ pending' # <<>>
                    /\ projectStructure' # NoStructure
         ]_vars
    /\ [](projectStructure # NoStructure => ~ScanMustFail(RootOf(projectStructure)))

\* a request naming a root with an unlistable directory below a readable code file
\* was answered with the error, and no tree is stored
C15_Witness ==
    /\ Handled
    /\ last.outcome = "throw"
    /\ last.message = "readdir /q/priv"
    /\ ProjectRootOf(SuppliedBy(last.request)) = "/q"
    /\ "q.js" \in CodeFilesBelow("/q", disk)
    /\ projectStructure = NoStructure

\* C16: the add-context handler passes a supplied maxFiles or maxDepth, 0
\* included, to generateProjectContext unchanged and applies 10 and 3 only to an
\* omitted one; maxFiles = 0 returns no files, maxDepth = 0 selects nothing
C16_SuppliedPolicyReachesAssemble ==
    (Handled /\ last.request.handler = "add-context" /\ Returned) =>
        LET params == last.request.params
        IN  /\ last.policy.maxFiles
                  = IF "maxFiles" \in DOMAIN params THEN params.maxFiles ELSE 10
            /\ last.policy.maxDepth
                  = IF "maxDepth" \in DOMAIN params THEN params.maxDepth ELSE 3
            /\ ("maxFiles" \in DOMAIN params /\ params.maxFiles = 0) => last.files = <<>>
            /\ ("maxDepth" \in DOMAIN params /\ params.maxDepth = 0) => last.relevantFiles = <<>>

\* C17: the tree a handler assembles the context of a request from is a tree
\* scanned from the projectRoot of that request
C17_TreeOfRequestedRoot ==
    (Handled /\ Returned) =>
        RootOf(last.tree) = ProjectRootOf(SuppliedBy(last.request))

====
